---- MODULE Spec2Model ----
(***************************************************************************)
(* Document indexing and retrieval pipeline of iPDF.                       *)
(*                                                                         *)
(*   QueryService.search          src/src/services/query_service.py        *)
(*   VectorStoreManager.search    src/src/core/vectorstore.py              *)
(*   EmbeddingGenerator           src/src/core/embeddings.py               *)
(*   PDFService                   src/src/services/pdf_service.py          *)
(*   MultimodalExtractor          src/src/core/multimodal_extractor.py     *)
(*                                                                         *)
(* A Python str is a sequence of one-character strings.  A similarity      *)
(* score is an integer number of score units (only comparisons of scores   *)
(* occur in the code).                                                     *)
(***************************************************************************)
EXTENDS Integers, Sequences, FiniteSets, TLC

(***************************************************************************)
(* Bounds of the model.                                                    *)
(***************************************************************************)
\* largest number of points the collection holds for one query
MaxStore == 3
\* scores range over 1..MaxScore, min_score over 1..MaxScore+1
MaxScore == 2
\* the limit argument of search ranges over 1..MaxLimit
MaxLimit == 2
\* largest number of pages of an ingested document
MaxPages == 1

(***************************************************************************)
(* Python string and list primitives.                                      *)
(***************************************************************************)
Min(a, b) == IF a < b THEN a ELSE b

\* s[a:b] for 0 <= a, 0 <= b
Slice(s, a, b) == SubSeq(s, a + 1, Min(b, Len(s)))

\* c * n
Rep(c, n) == [i \in 1..n |-> c]

\* str.isspace() on one character
IsSpace(c) == c \in {" ", "\n", "\t", "\r"}

\* str.strip(): the text from its first to its last non-blank character
Strip(s) ==
  IF \A i \in 1..Len(s) : IsSpace(s[i]) THEN <<>>
  ELSE LET n     == Len(s)
           first == CHOOSE i \in 1..n :
                      ~IsSpace(s[i]) /\ \A j \in 1..(i - 1) : IsSpace(s[j])
           back  == CHOOSE k \in 0..(n - 1) :
                      ~IsSpace(s[n - k]) /\ \A j \in (n - k + 1)..n : IsSpace(s[j])
       IN  SubSeq(s, first, n - back)

Digits == <<"0", "1", "2", "3", "4", "5", "6", "7", "8", "9">>

\* str(n) of a non-negative int, as an f-string formats it
RECURSIVE Str(_)
Str(n) == IF n < 10 THEN <<Digits[n + 1]>>
          ELSE Str(n \div 10) \o <<Digits[(n % 10) + 1]>>

\* sub in s
Contains(s, sub) ==
  \E i \in 0..(Len(s) - Len(sub)) : SubSeq(s, i + 1, i + Len(sub)) = sub

(***************************************************************************)
(* PDFService class constants and the chunking primitives.                 *)
(***************************************************************************)
CHUNK_SIZE == 800

CHUNK_OVERLAP == 150

\* the minimum chunk size of _process_text_chunk
MIN_CHUNK == 50

ChunkStep_Sum == CHUNK_SIZE + CHUNK_OVERLAP

\* the step of range(0, len(text), CHUNK_SIZE - CHUNK_OVERLAP)
ChunkStep == CHUNK_SIZE - CHUNK_OVERLAP

\* text[i:i+CHUNK_SIZE], the window before stripping
RawWindow(text, i) == Slice(text, i, i + CHUNK_SIZE)

\* chunk = text[i:i+self.CHUNK_SIZE].strip()
Window(text, i) == Strip(RawWindow(text, i))

ChunkLongEnough_AtLeast(chunk) == Len(chunk) >= MIN_CHUNK

\* if len(chunk) > 50
ChunkLongEnough(chunk) == Len(chunk) > MIN_CHUNK

(***************************************************************************)
(* Page texts.  Text(h, g, b) is h letters, g blanks, then b letters that  *)
(* cycle through an alphabet of three.                                     *)
(***************************************************************************)
Alphabet == <<"a", "b", "c">>

Body(b) == [i \in 1..b |-> Alphabet[((i - 1) % 3) + 1]]

Text(h, g, b) == Rep("x", h) \o Rep(" ", g) \o Body(b)

\* the shift between two stripped windows that share CHUNK_OVERLAP characters
\* and overlap by at least 90%: overlap / (overlap + shift) >= 9/10
OverlapShift == CHUNK_OVERLAP \div 9

\* a page text whose second and third windows strip to two chunks of 166
\* characters that share 150 of them
OverlapText ==
  Text(1, 2 * ChunkStep - OverlapShift - 1, CHUNK_OVERLAP + 2 * OverlapShift)

(***************************************************************************)
(* The indexed corpus seen by one query: payloads of stored points.        *)
(***************************************************************************)
FileA == <<"a", ".", "p", "d", "f">>

FileB == <<"b", ".", "p", "d", "f">>

\* the length of the content prefix used as the duplicate key
HASH_LEN == 100

\* two contents that agree on their first HASH_LEN characters and differ after
ContentA == Rep("a", HASH_LEN) \o <<"x">>

ContentA2 == Rep("a", HASH_LEN) \o <<"y">>

\* a content shorter than the prefix key
ContentS == <<"a", "b", "c">>

\* the two 90%-overlapping chunks the chunker emits for OverlapText
ContentO1 == Window(OverlapText, ChunkStep)

ContentO2 == Window(OverlapText, 2 * ChunkStep)

Payloads ==
  { [filename |-> FileA, page_number |-> 1, content_type |-> "text", content |-> ContentA],
    [filename |-> FileB, page_number |-> 1, content_type |-> "text", content |-> ContentA2],
    [filename |-> FileB, page_number |-> 2, content_type |-> "text", content |-> ContentS],
    [filename |-> FileA, page_number |-> 2, content_type |-> "text", content |-> ContentO1],
    [filename |-> FileA, page_number |-> 2, content_type |-> "text", content |-> ContentO2] }

Scores == 1..MaxScore

MinScores == 1..(MaxScore + 1)

Points == [score : Scores, payload : Payloads]

\* the points of the collection, in the order of descending similarity to
\* the query in which Qdrant ranks them
RankedStores ==
  UNION { { s \in [1..n -> Points] :
              \A i \in 1..(n - 1) : s[i].score >= s[i + 1].score } : n \in 0..MaxStore }

VARIABLES
  store,             \* the collection, ranked for the query
  sState,            \* "idle", "returned" or "raised"
  sArgs,             \* the arguments and environment of the search call
  all_results,       \* the candidates vector_store.search returned
  filtered_results,  \* the list search returned
  kept               \* position in all_results of each returned result

searchVars == <<store, sState, sArgs, all_results, filtered_results, kept>>

VARIABLES
  doc,         \* the PDF handed to process_and_index_pdf
  ipc,         \* position in process_and_index_pdf
  result,      \* the ProcessingResult of the extractor
  elemIdx,     \* position of the element loop in result.elements
  winStart,    \* the loop variable i of _process_text_chunk
  chunks,      \* the texts to embed
  payloads,    \* the payloads to index
  origin,      \* for each chunk, the position of the element it came from
  windows,     \* the windows _process_text_chunk has taken so far
  embedInput,  \* the texts handed to generate_embeddings_batch
  ret          \* the value process_and_index_pdf returned

ingestVars == <<doc, ipc, result, elemIdx, winStart, chunks, payloads, origin,
                windows, embedInput, ret>>

VARIABLES
  embedding_dim,   \* self.embedding_dim of the EmbeddingGenerator
  eState,          \* "idle", "batch" (inside the loop), "returned" or "raised"
  eOp,             \* the method called: "none", "single" or "batch"
  texts,           \* the texts argument
  batch_size,      \* the batch_size argument
  batchStart,      \* the loop variable i of generate_embeddings_batch
  all_embeddings,  \* the local list the loop extends
  submitted,       \* the batches handed to model.encode, in call order
  eOut             \* the list the caller received

embedVars == <<embedding_dim, eState, eOp, texts, batch_size, batchStart,
               all_embeddings, submitted, eOut>>

VARIABLES
  coll,     \* the Qdrant collection: exists, dim, points, indexes
  health,   \* "healthy": store calls fail only for what they are asked;
            \* "flaky": any store call may also fail or time out
  mgr,      \* per worker, its VectorStoreManager: position, method, the
            \* store calls of the method, snapshots and outcome
  nextId    \* the ids uuid4 has handed to stored points so far

storeVars == <<coll, health, mgr, nextId>>

VARIABLES
  cpc,             \* position in get_context_for_query: "idle", "search",
                   \* "searched", "retried", "returned" or "raised"
  cArgs,           \* the query, limit and filename of the call
  enhanced_query,  \* what enhance_query made of the query
  search_limit,    \* the limit of the first search
  searches,        \* the searches made so far: query, limit and results
  cResults,        \* the results of the latest search
  context          \* the string returned

contextVars == <<cpc, cArgs, enhanced_query, search_limit, searches, cResults,
                 context>>

VARIABLES
  entry,      \* the batch entry point that runs
  fates,      \* what will happen to each submitted document
  bState,     \* "idle", "loop", "done" or "aborted"
  attempted,  \* the documents the loop has dealt with
  reported,   \* the outcome recorded for each document
  final       \* the closing message of the batch

batchVars == <<entry, fates, bState, attempted, reported, final>>

vars == <<searchVars, ingestVars, embedVars, storeVars, contextVars, batchVars>>

\* no get_context_for_query call and no batch is running
FrontIdle ==
  /\ cpc = "idle"
  /\ cArgs = [query |-> <<>>, limit |-> 1, filename |-> <<>>]
  /\ enhanced_query = <<>>
  /\ search_limit = 0
  /\ searches = <<>>
  /\ cResults = <<>>
  /\ context = <<>>
  /\ entry = "none"
  /\ fates = <<>>
  /\ bState = "idle"
  /\ attempted = {}
  /\ reported = <<>>
  /\ final = "none"

\* everything but the variables of QueryService.search
notSearchVars == <<ingestVars, embedVars, storeVars, contextVars, batchVars>>

\* everything but the variables of process_and_index_pdf
notIngestVars == <<searchVars, embedVars, storeVars, contextVars, batchVars>>

\* everything but the variables of the EmbeddingGenerator
notEmbedVars == <<searchVars, ingestVars, storeVars, contextVars, batchVars>>

\* everything but the variables of the VectorStoreManager
notStoreVars == <<searchVars, ingestVars, embedVars, contextVars, batchVars>>

MaxWorkers == 2

Workers == 1..MaxWorkers

\* no collection under the configured name
Absent == [exists |-> FALSE, dim |-> 0, points |-> {}, indexes |-> {}]

\* a manager that has not been constructed
NoManager ==
  [pc |-> "off", op |-> "none", log |-> <<>>, pre |-> Absent, mid |-> Absent,
   ret |-> "none", embeddings |-> <<>>, payloads |-> <<>>]

\* no VectorStoreManager has been constructed
StoreIdle ==
  /\ coll = Absent
  /\ health = "healthy"
  /\ mgr = [w \in Workers |-> NoManager]
  /\ nextId = 0

\* expected_dim = 384  # Match your embedding model
EXPECTED_DIM == 384

\* assert len(embedding) == 768; return [0.1] * 768
TEST_DIM == 768

\* the dimensions of the sentence-transformers models the generator may load
ModelDims == {EXPECTED_DIM, TEST_DIM}

\* no embedding call has been made
EmbedIdle ==
  /\ embedding_dim = EXPECTED_DIM
  /\ eState = "idle"
  /\ eOp = "none"
  /\ texts = <<>>
  /\ batch_size = 1
  /\ batchStart = 0
  /\ all_embeddings = <<>>
  /\ submitted = <<>>
  /\ eOut = <<>>

(***************************************************************************)
(* MultimodalExtractor.process_pdf.  A document is its file name, whether  *)
(* the file passes validation and opens, and for each page the text        *)
(* PyMuPDF reads from it and whether the page renders to an image.         *)
(***************************************************************************)
\* the smallest stripped page text that becomes a text element is longer
MIN_PAGE_TEXT == 20

\* a gap of blanks that pushes the body into the second and third window
LongGap == 2 * ChunkStep - OverlapShift - 1

\* body lengths at and just above the chunk floor
ShortBodies == {0, MIN_CHUNK, MIN_CHUNK + 1}

\* one window and a tail window of MIN_CHUNK + 1 characters
TailText == Text(0, 0, ChunkStep + MIN_CHUNK + 1)

PageTexts ==
  {Text(h, g, b) : h \in {0, 1}, g \in {0, LongGap}, b \in ShortBodies}
    \cup {TailText, OverlapText}

Pages == [text : PageTexts, image_ok : BOOLEAN]

\* a file that fails validation or does not open has no page read
UnreadableDoc == [filename |-> FileA, file_ok |-> FALSE, pages |-> <<>>]

\* three pages of which the first and third hold one chunk of text and the
\* second holds no text at all; the pages render or do not
ThreePageDocs ==
  LET FullPage(image_ok)  == [text |-> Text(1, 0, MIN_CHUNK + 1), image_ok |-> image_ok]
      EmptyPage(image_ok) == [text |-> Text(0, 0, 0), image_ok |-> image_ok]
  IN  { [filename |-> FileA, file_ok |-> TRUE,
         pages |-> <<FullPage(r), EmptyPage(r), FullPage(r)>>] : r \in BOOLEAN }

Docs ==
  [filename : {FileA}, file_ok : {TRUE},
   pages : UNION {[1..n -> Pages] : n \in 1..MaxPages}]
    \cup {UnreadableDoc} \cup ThreePageDocs

\* the base64 text of the rendered page image
ImageBase64(page_number) == <<"i", "V", "B", "O", "R", "w">> \o Str(page_number)

\* content=f"Visual content from page {page_num + 1} of {filename}"
ImageContent(page_number, filename) ==
  <<"V", "i", "s", "u", "a", "l", " ", "c", "o", "n", "t", "e", "n", "t", " ",
    "f", "r", "o", "m", " ", "p", "a", "g", "e", " ">>
  \o Str(page_number) \o <<" ", "o", "f", " ">> \o filename

\* if text and len(text) > 20
PageHasText(text) == Len(text) > 0 /\ Len(text) > MIN_PAGE_TEXT

\* the elements one page contributes: its text element, then its image element
PageElements(page, page_number, filename) ==
  LET text == Strip(page.text)
  IN  (IF PageHasText(text)
       THEN <<[content |-> text, content_type |-> "text",
               page_number |-> page_number, image_base64 |-> <<>>]>>
       ELSE <<>>)
      \o
      (IF page.image_ok
       THEN <<[content |-> ImageContent(page_number, filename),
               content_type |-> "image", page_number |-> page_number,
               image_base64 |-> ImageBase64(page_number)]>>
       ELSE <<>>)

RECURSIVE ExtractPages(_, _, _)
ExtractPages(pages, page_num, filename) ==
  IF page_num >= Len(pages) THEN <<>>
  ELSE PageElements(pages[page_num + 1], page_num + 1, filename)
       \o ExtractPages(pages, page_num + 1, filename)

ProcessPdf(d) ==
  LET elements == ExtractPages(d.pages, 0, d.filename)
  IN  IF ~d.file_ok \/ elements = <<>>
      THEN [success |-> FALSE, elements |-> <<>>]
      ELSE [success |-> TRUE, elements |-> elements]

(***************************************************************************)
(* PDFService.process_and_index_pdf and PDFService._process_text_chunk     *)
(***************************************************************************)
ImageChunkText_Content(element, filename) == element.content

\* f"Page {element.page_number} visual content tables figures charts
\*   diagrams from {filename}"
ImageChunkText(element, filename) ==
  <<"P", "a", "g", "e", " ">> \o Str(element.page_number)
  \o <<" ", "v", "i", "s", "u", "a", "l", " ", "c", "o", "n", "t", "e", "n", "t",
       " ", "t", "a", "b", "l", "e", "s", " ", "f", "i", "g", "u", "r", "e", "s",
       " ", "c", "h", "a", "r", "t", "s", " ", "d", "i", "a", "g", "r", "a", "m",
       "s", " ", "f", "r", "o", "m", " ">>
  \o filename

ImagePayload(element, filename) ==
  [filename |-> filename, page_number |-> element.page_number,
   content_type |-> "image", content |-> element.content,
   image_base64 |-> element.image_base64]

TextPayload(chunk, page_number, filename) ==
  [filename |-> filename, page_number |-> page_number,
   content_type |-> "text", content |-> chunk]

NoResult == [success |-> FALSE, elements |-> <<>>]

IngestIdle ==
  /\ doc = UnreadableDoc
  /\ ipc = "idle"
  /\ result = NoResult
  /\ elemIdx = 0
  /\ winStart = 0
  /\ chunks = <<>>
  /\ payloads = <<>>
  /\ origin = <<>>
  /\ windows = <<>>
  /\ embedInput = <<>>
  /\ ret = "none"

\* if not result.success: ... return False
ExtractionFailedResult == "False"

\* if not chunks: ... return False
NoChunksResult == "False"

\* result = self.extractor.process_pdf(file_path, filename);
\* if not result.success: return False
Extract ==
  /\ ipc = "start"
  /\ result' = ProcessPdf(doc)
  /\ IF result'.success
     THEN /\ ipc' = "loop"
          /\ elemIdx' = 1
          /\ ret' = ret
     ELSE /\ ipc' = "returned"
          /\ ret' = ExtractionFailedResult
          /\ elemIdx' = elemIdx
  /\ UNCHANGED <<doc, winStart, chunks, payloads, origin, windows, embedInput>>
  /\ UNCHANGED notIngestVars

\* for element in result.elements: if element.content_type == "text":
\* enter _process_text_chunk
TextElement ==
  /\ ipc = "loop"
  /\ elemIdx <= Len(result.elements)
  /\ result.elements[elemIdx].content_type = "text"
  /\ ipc' = "text"
  /\ winStart' = 0
  /\ UNCHANGED <<doc, result, elemIdx, chunks, payloads, origin, windows,
                 embedInput, ret>>
  /\ UNCHANGED notIngestVars

\* one iteration of for i in range(0, len(text), CHUNK_SIZE - CHUNK_OVERLAP)
TextWindow ==
  /\ ipc = "text"
  /\ LET element == result.elements[elemIdx]
         text    == element.content
         chunk   == Window(text, winStart)
         emit    == ChunkLongEnough(chunk)
     IN  /\ winStart < Len(text)
         /\ chunks' = IF emit THEN Append(chunks, chunk) ELSE chunks
         /\ payloads' = IF emit
                        THEN Append(payloads,
                                    TextPayload(chunk, element.page_number, doc.filename))
                        ELSE payloads
         /\ origin' = IF emit THEN Append(origin, elemIdx) ELSE origin
         /\ windows' = Append(windows,
                              [elem |-> elemIdx, start |-> winStart, emitted |-> emit])
         /\ winStart' = winStart + ChunkStep
  /\ UNCHANGED <<doc, ipc, result, elemIdx, embedInput, ret>>
  /\ UNCHANGED notIngestVars

\* the range is exhausted: _process_text_chunk returns
TextDone ==
  /\ ipc = "text"
  /\ winStart >= Len(result.elements[elemIdx].content)
  /\ ipc' = "loop"
  /\ elemIdx' = elemIdx + 1
  /\ UNCHANGED <<doc, result, winStart, chunks, payloads, origin, windows,
                 embedInput, ret>>
  /\ UNCHANGED notIngestVars

\* elif element.content_type == "image": one chunk and one payload.  There is
\* no else branch; process_pdf emits no element of another content type.
ImageElement ==
  /\ ipc = "loop"
  /\ elemIdx <= Len(result.elements)
  /\ result.elements[elemIdx].content_type = "image"
  /\ chunks' = Append(chunks, ImageChunkText(result.elements[elemIdx], doc.filename))
  /\ payloads' = Append(payloads, ImagePayload(result.elements[elemIdx], doc.filename))
  /\ origin' = Append(origin, elemIdx)
  /\ elemIdx' = elemIdx + 1
  /\ UNCHANGED <<doc, ipc, result, winStart, windows, embedInput, ret>>
  /\ UNCHANGED notIngestVars

\* if not chunks: return False
NoChunks ==
  /\ ipc = "loop"
  /\ elemIdx > Len(result.elements)
  /\ chunks = <<>>
  /\ ipc' = "returned"
  /\ ret' = NoChunksResult
  /\ UNCHANGED <<doc, result, elemIdx, winStart, chunks, payloads, origin, windows,
                 embedInput>>
  /\ UNCHANGED notIngestVars

\* embeddings = self.embedding_gen.generate_embeddings_batch(chunks,
\* batch_size=32, ...): the call enters the generator's loop
EmbedChunks ==
  /\ ipc = "loop"
  /\ elemIdx > Len(result.elements)
  /\ chunks # <<>>
  /\ embedInput' = chunks
  /\ ipc' = "embedded"
  /\ eState = "idle"
  /\ eOp' = "batch"
  /\ texts' = chunks
  /\ batch_size' = 32
  /\ eState' = "batch"
  /\ UNCHANGED <<embedding_dim, batchStart, all_embeddings, submitted, eOut>>
  /\ UNCHANGED <<doc, result, elemIdx, winStart, chunks, payloads, origin, windows,
                 ret>>
  /\ UNCHANGED <<searchVars, storeVars, contextVars, batchVars>>

(***************************************************************************)
(* EmbeddingGenerator.generate_embedding: fails on an empty or blank text  *)
(* and when the model's encode call fails.                                 *)
(***************************************************************************)
GenerateEmbeddingRaises(text, backendOk) ==
  \/ Len(text) = 0
  \/ Len(Strip(text)) = 0
  \/ ~backendOk

(***************************************************************************)
(* QueryService.search builds filter_dict: the set of its (key, value)     *)
(* items; None and the empty dict are the empty set.                       *)
(***************************************************************************)
BuildFilter(filename) ==
  IF Len(filename) > 0 THEN {[key |-> "filename", value |-> filename]} ELSE {}

(***************************************************************************)
(* VectorStoreManager.search: the `limit` best-ranked points, restricted   *)
(* to the file named by the filter when there is one.                      *)
(***************************************************************************)
Take(s, n) == SubSeq(s, 1, Min(n, Len(s)))

VectorStoreSearch(points, limit, filter_dict) ==
  LET HasFilename == \E e \in filter_dict : e.key = "filename"
      Match(p) == \A e \in filter_dict :
                     e.key = "filename" => p.payload.filename = e.value
      matching == IF HasFilename THEN SelectSeq(points, Match) ELSE points
  IN  Take(matching, limit)

\* limit=limit * 3
FetchLimit(limit) == limit * 3

(***************************************************************************)
(* The filter-and-deduplicate loop of QueryService.search.                 *)
(***************************************************************************)
ScoreTooLow_Inverted(score, min_score) == score > min_score

ScoreTooLow_Never(score, min_score) == FALSE

\* if score < min_score: continue
ScoreTooLow(score, min_score) == score < min_score

ContentHash_Whole(content) == content

\* content_hash = content[:100]
ContentHash(content) == Slice(content, 0, HASH_LEN)

\* if content_hash in seen_content: continue
IsDuplicate(content_hash, seen_content) == content_hash \in seen_content

\* a loop that lets a later duplicate replace the one kept before it
RECURSIVE FilterLoop_KeepLast(_, _, _, _, _, _, _)
FilterLoop_KeepLast(results, k, seen_content, filtered, keptAt, min_score, limit) ==
  IF k > Len(results) THEN [filtered |-> filtered, kept |-> keptAt]
  ELSE
    LET cand == results[k]
        hash   == Slice(cand.payload.content, 0, HASH_LEN)
        Same(i) == Slice(filtered[i].payload.content, 0, HASH_LEN) = hash
    IN  IF cand.score < min_score
        THEN FilterLoop_KeepLast(results, k + 1, seen_content, filtered, keptAt,
                                 min_score, limit)
        ELSE IF hash \in seen_content
        THEN FilterLoop_KeepLast(results, k + 1, seen_content,
               [i \in 1..Len(filtered) |-> IF Same(i) THEN cand ELSE filtered[i]],
               [i \in 1..Len(filtered) |-> IF Same(i) THEN k ELSE keptAt[i]],
               min_score, limit)
        ELSE IF Len(filtered) >= limit
        THEN FilterLoop_KeepLast(results, k + 1, seen_content, filtered, keptAt,
                                 min_score, limit)
        ELSE FilterLoop_KeepLast(results, k + 1, seen_content \cup {hash},
                                 Append(filtered, cand), Append(keptAt, k),
                                 min_score, limit)

LimitReached_Late(filtered, limit) == Len(filtered) > limit

\* if len(filtered_results) >= limit: break
LimitReached(filtered, limit) == Len(filtered) >= limit

\* for cand in all_results: ..., from position k on
RECURSIVE FilterLoop(_, _, _, _, _, _, _)
FilterLoop(results, k, seen_content, filtered, keptAt, min_score, limit) ==
  IF k > Len(results) THEN [filtered |-> filtered, kept |-> keptAt]
  ELSE
    LET cand  == results[k]
        content == cand.payload.content
        score   == cand.score
    IN  IF ScoreTooLow(score, min_score)
        THEN FilterLoop(results, k + 1, seen_content, filtered, keptAt, min_score, limit)
        ELSE
          LET content_hash == ContentHash(content)
          IN  IF IsDuplicate(content_hash, seen_content)
              THEN FilterLoop(results, k + 1, seen_content, filtered, keptAt,
                              min_score, limit)
              ELSE
                LET added == Append(filtered, cand)
                    at    == Append(keptAt, k)
                IN  IF LimitReached(added, limit)
                    THEN [filtered |-> added, kept |-> at]
                    ELSE FilterLoop(results, k + 1, seen_content \cup {content_hash},
                                    added, at, min_score, limit)

(***************************************************************************)
(* The arguments of one search call and the health of its collaborators.   *)
(***************************************************************************)
Queries == {<<>>, <<" ">>, <<"q">>}

Filenames == {<<>>, FileA}

Envs == {"ok", "embed_fail", "store_fail"}

SearchArgs ==
  [query : Queries, limit : 1..MaxLimit, filename : Filenames,
   min_score : MinScores, env : Envs]

NoArgs == [query |-> <<>>, limit |-> 1, filename |-> <<>>, min_score |-> 1, env |-> "ok"]

OnException_Swallow == "returned"

\* except Exception as e: raise VectorStoreError(...)
OnException == "raised"

\* the calls inside the try block that raise
SearchRaises(a) ==
  \/ GenerateEmbeddingRaises(a.query, a.env # "embed_fail")
  \/ a.env = "store_fail"

(***************************************************************************)
(* QueryService.search(query, limit, filename, min_score)                  *)
(***************************************************************************)
Search(a) ==
  /\ sState = "idle"
  /\ sArgs' = a
  /\ IF SearchRaises(a)
     THEN /\ sState' = OnException
          /\ UNCHANGED <<all_results, filtered_results, kept>>
     ELSE LET found == VectorStoreSearch(store, FetchLimit(a.limit), BuildFilter(a.filename))
              out   == FilterLoop(found, 1, {}, <<>>, <<>>, a.min_score, a.limit)
          IN  /\ sState' = "returned"
              /\ all_results' = found
              /\ filtered_results' = out.filtered
              /\ kept' = out.kept
  /\ UNCHANGED store
  /\ UNCHANGED notSearchVars

SearchInit ==
  /\ store \in RankedStores
  /\ sState = "idle"
  /\ sArgs = NoArgs
  /\ all_results = <<>>
  /\ filtered_results = <<>>
  /\ kept = <<>>
  /\ IngestIdle
  /\ EmbedIdle
  /\ StoreIdle
  /\ FrontIdle

SearchNext == \E a \in SearchArgs : Search(a)

SearchSpec == SearchInit /\ [][SearchNext]_vars

(***************************************************************************)
(* The ingestion of one document.                                          *)
(***************************************************************************)
SearchIdle ==
  /\ store = <<>>
  /\ sState = "idle"
  /\ sArgs = NoArgs
  /\ all_results = <<>>
  /\ filtered_results = <<>>
  /\ kept = <<>>

(***************************************************************************)
(* Properties of QueryService.search, checked under SearchSpec.            *)
(***************************************************************************)
\* the first HASH_LEN characters of a payload content
PrefixKey(content) == SubSeq(content, 1, IF Len(content) < HASH_LEN THEN Len(content) ELSE HASH_LEN)

\* the candidate at position i has a score at or above the threshold
Passing(i) == all_results[i].score >= sArgs.min_score

PassingAt == {i \in 1..Len(all_results) : Passing(i)}

\* the search call hit a failing embedding or a failing store call
SearchFailed ==
  \/ sArgs.env \in {"embed_fail", "store_fail"}
  \/ \A i \in 1..Len(sArgs.query) : IsSpace(sArgs.query[i])

\* C1: every result returned by search has score >= min_score.
C1_ScoreInvariant ==
  sState = "returned" =>
    \A i \in 1..Len(filtered_results) : filtered_results[i].score >= sArgs.min_score

\* a search returned results after skipping a candidate below the threshold
C1_Witness ==
  /\ sState = "returned"
  /\ filtered_results # <<>>
  /\ \E i \in 1..Len(all_results) : ~Passing(i)

\* C2: no two results of one search call have the same content-prefix key.
C2_DedupInvariant ==
  sState = "returned" =>
    \A i, j \in 1..Len(filtered_results) :
      i # j => PrefixKey(filtered_results[i].payload.content)
               # PrefixKey(filtered_results[j].payload.content)

\* two passing candidates with different contents share a prefix key and one
\* of them was returned together with another result
C2_Witness ==
  /\ sState = "returned"
  /\ Len(filtered_results) >= 2
  /\ \E i, j \in PassingAt :
       /\ i < j
       /\ all_results[i].payload.content # all_results[j].payload.content
       /\ PrefixKey(all_results[i].payload.content)
            = PrefixKey(all_results[j].payload.content)

StagedFilter(cands, min_score) ==
  LET Ok(c) == c.score >= min_score IN SelectSeq(cands, Ok)

RECURSIVE StagedDedup(_, _)
StagedDedup(cands, seenKeys) ==
  IF cands = <<>> THEN <<>>
  ELSE IF PrefixKey(Head(cands).payload.content) \in seenKeys
       THEN StagedDedup(Tail(cands), seenKeys)
       ELSE <<Head(cands)>> \o StagedDedup(Tail(cands),
                 seenKeys \cup {PrefixKey(Head(cands).payload.content)})

StagedReference(cands, min_score, limit) ==
  LET d == StagedDedup(StagedFilter(cands, min_score), {})
  IN  SubSeq(d, 1, IF limit < Len(d) THEN limit ELSE Len(d))

\* C4: the single-pass loop with early break returns the staged reference
\* (filter, then dedup, then truncate); the result has at most limit entries
\* and keeps the candidates' relative order.
C4_LoopEqualsStaged ==
  sState = "returned" =>
    /\ filtered_results = StagedReference(all_results, sArgs.min_score, sArgs.limit)
    /\ Len(all_results) <= 3 * sArgs.limit
    /\ Len(filtered_results) <= sArgs.limit
    /\ Len(kept) = Len(filtered_results)
    /\ \A i \in 1..Len(kept) : all_results[kept[i]] = filtered_results[i]
    /\ \A i \in 1..(Len(kept) - 1) : kept[i] < kept[i + 1]

\* the early break cut the result: more distinct passing candidates than limit
C4_Witness ==
  /\ sState = "returned"
  /\ Len(StagedDedup(StagedFilter(all_results, sArgs.min_score), {})) > sArgs.limit
  /\ Len(filtered_results) = sArgs.limit

\* C5: of several passing candidates with one prefix key, the result holds
\* the first in the store's order; equal scores keep the store's order.
C5_FirstInstanceKept ==
  sState = "returned" =>
    /\ Len(kept) = Len(filtered_results)
    /\ \A i \in 1..Len(kept) :
         /\ kept[i] \in PassingAt
         /\ all_results[kept[i]] = filtered_results[i]
         /\ \A j \in PassingAt :
              (j < kept[i]) => PrefixKey(all_results[j].payload.content)
                               # PrefixKey(all_results[kept[i]].payload.content)
    /\ \A i \in 1..(Len(kept) - 1) : kept[i] < kept[i + 1]

\* two passing candidates of equal score and different content share a key
\* and the earlier one is in the result
C5_Witness ==
  /\ sState = "returned"
  /\ \E i \in 1..Len(kept) : \E j \in PassingAt :
       /\ kept[i] < j
       /\ all_results[j].score = all_results[kept[i]].score
       /\ all_results[j].payload.content # all_results[kept[i]].payload.content
       /\ PrefixKey(all_results[j].payload.content)
            = PrefixKey(all_results[kept[i]].payload.content)

\* c2 continues c1 after a shift and the shared part is at least 90% of
\* the longer of the two
ShiftedOverlap90(c1, c2) ==
  \E d \in 1..Len(c1) :
    /\ Len(c1) - d <= Len(c2)
    /\ SubSeq(c1, d + 1, Len(c1)) = SubSeq(c2, 1, Len(c1) - d)
    /\ 10 * (Len(c1) - d) >= 9 * (IF Len(c1) < Len(c2) THEN Len(c2) ELSE Len(c1))

Overlap90(c1, c2) == ShiftedOverlap90(c1, c2) \/ ShiftedOverlap90(c2, c1)

\* C6: of two passing candidates whose texts overlap by 90%, only the
\* higher-scoring one appears in the result.
C6_OverlappingChunksDeduplicated ==
  sState = "returned" =>
    \A i, j \in PassingAt :
      (all_results[i].score > all_results[j].score
       /\ Overlap90(all_results[i].payload.content,
                          all_results[j].payload.content))
        => ~(\E m, n \in 1..Len(kept) : kept[m] = i /\ kept[n] = j)

\* C7: a failing query embedding or a failing store call makes search
\* raise; it never returns a list.
C7_FailureSurfaced ==
  (sState # "idle" /\ SearchFailed) => sState = "raised"

\* a search whose store call failed raised
C7_Witness ==
  /\ sState = "raised"
  /\ sArgs.env = "store_fail"
  /\ ~(\A i \in 1..Len(sArgs.query) : IsSpace(sArgs.query[i]))

(***************************************************************************)
(* Properties of the chunker, checked under IngestSpec and FairIngestSpec. *)
(***************************************************************************)
\* the elements the element loop has finished
DoneElements == {k \in 1..Len(result.elements) : k < elemIdx}

DoneTextElements == {k \in DoneElements : result.elements[k].content_type = "text"}

DoneImageElements == {k \in DoneElements : result.elements[k].content_type = "image"}

WindowsOf(k) == {w \in 1..Len(windows) : windows[w].elem = k}

\* position p (0-based) of element k lies in a recorded window of k
CoveredAt(k, p) ==
  \E w \in WindowsOf(k) :
    windows[w].start <= p /\ p < windows[w].start + CHUNK_SIZE

C8_CoverageInv ==
  \A k \in DoneTextElements :
    LET len == Len(result.elements[k].content)
    IN  /\ {windows[w].start : w \in WindowsOf(k)}
             = {i \in 0..(len - 1) : i % (CHUNK_SIZE - CHUNK_OVERLAP) = 0}
        /\ \A p \in 0..(len - 1) : CoveredAt(k, p)

IngestFinished == ipc \in {"returned", "embedded"}

\* C8: the windows taken at 0, s, 2s, ... (s = CHUNK_SIZE - CHUNK_OVERLAP)
\* cover every character position of every text element, and the windowing
\* loop terminates.
C8_Coverage == []C8_CoverageInv /\ <>IngestFinished

\* a text element longer than two steps has been windowed and is covered
C8_Witness ==
  \E k \in DoneTextElements :
    /\ Len(result.elements[k].content) > 2 * (CHUNK_SIZE - CHUNK_OVERLAP)
    /\ Cardinality(WindowsOf(k)) = 3
    /\ \A p \in 0..(Len(result.elements[k].content) - 1) : CoveredAt(k, p)

\* the stripped length of the window of element k that starts at i
StrippedLen(k, i) ==
  LET text == result.elements[k].content
      last == IF i + CHUNK_SIZE < Len(text) THEN i + CHUNK_SIZE ELSE Len(text)
  IN  Len(Strip(SubSeq(text, i + 1, last)))

TextChunksAt == {i \in 1..Len(chunks) : payloads[i].content_type = "text"}

\* C9: every text chunk is non-empty, at most CHUNK_SIZE long and of
\* stripped length above the floor of 50; a window at or below the floor
\* yields neither a chunk nor a payload.
C9_ChunkFloor ==
  /\ Len(chunks) = Len(payloads)
  /\ Len(origin) = Len(chunks)
  /\ \A i \in TextChunksAt :
       /\ Len(chunks[i]) > 0
       /\ Len(chunks[i]) <= CHUNK_SIZE
       /\ Len(Strip(chunks[i])) > 50
       /\ payloads[i].content = chunks[i]
  /\ \A w \in 1..Len(windows) :
       windows[w].emitted <=> StrippedLen(windows[w].elem, windows[w].start) > 50
  /\ Cardinality(TextChunksAt)
       = Cardinality({w \in 1..Len(windows) : windows[w].emitted})

\* a window whose stripped length is exactly the floor was dropped
C9_Witness ==
  \E w \in 1..Len(windows) :
    /\ StrippedLen(windows[w].elem, windows[w].start) = 50
    /\ ~windows[w].emitted
    /\ \A i \in 1..Len(chunks) : origin[i] # windows[w].elem

\* C10: every image element yields exactly one chunk whose text is a
\* synthesized description naming the document and the page, whose payload
\* carries the element's content and image verbatim; the content and the
\* image are never among the texts handed to the embedding generator.
\* (process_pdf emits text and image elements only, no table elements.)
C10_ImageChunk ==
  /\ \A k \in DoneImageElements :
       LET e  == result.elements[k]
           at == {i \in 1..Len(chunks) : origin[i] = k}
       IN  /\ Cardinality(at) = 1
           /\ \A i \in at :
                /\ Contains(chunks[i], doc.filename)
                /\ Contains(chunks[i], Str(e.page_number))
                /\ chunks[i] # e.content
                /\ chunks[i] # e.image_base64
                /\ payloads[i].content_type = "image"
                /\ payloads[i].content = e.content
                /\ payloads[i].image_base64 = e.image_base64
                /\ payloads[i].page_number = e.page_number
                /\ payloads[i].filename = doc.filename
  /\ ipc = "embedded" =>
       /\ embedInput = chunks
       /\ \A i \in 1..Len(embedInput) : \A k \in DoneImageElements :
            /\ embedInput[i] # result.elements[k].content
            /\ embedInput[i] # result.elements[k].image_base64

\* a document with a text chunk and an image element reached the embedder
C10_Witness ==
  /\ ipc = "embedded"
  /\ DoneImageElements # {}
  /\ TextChunksAt # {}

(***************************************************************************)
(* What the caller of process_and_index_pdf is told, checked under         *)
(* IngestSpec.                                                             *)
(***************************************************************************)
\* the call returned at `if not result.success`
ExtractionFailedOutcome == ipc = "returned" /\ ~result.success

\* the call returned at `if not chunks`
ZeroChunksOutcome == ipc = "returned" /\ result.success /\ chunks = <<>>

\* C11: a document that produced zero chunks and a document whose
\* extraction failed are reported to the caller as different results: the
\* value returned for the one is never the value returned for the other.
C11_OutcomesDistinguished ==
  /\ ZeroChunksOutcome => ret # ExtractionFailedResult
  /\ ExtractionFailedOutcome => ret # NoChunksResult

(***************************************************************************)
(* EmbeddingGenerator.  A vector is modelled by the text it encodes and    *)
(* by its length; the model's encode call either fails or yields one       *)
(* vector per text of the batch, in the order of the batch.                *)
(***************************************************************************)
MaxTexts == 3

MaxBatch == 2

Vector(text, dim) == [text |-> text, dim |-> dim]

Encode_Reversed(batch, dim) ==
  [k \in 1..Len(batch) |-> Vector(batch[Len(batch) + 1 - k], dim)]

\* self.model.encode(batch, ...), then [emb.tolist() for emb in batch_embeddings]
Encode(batch, dim) == [k \in 1..Len(batch) |-> Vector(batch[k], dim)]

\* the texts handed to the generator
EmbedTexts == {<<"q">>, <<"r">>}

TextLists == UNION { [1..n -> EmbedTexts] : n \in 0..MaxTexts }

BatchSizes == 0..MaxBatch

\* batch = texts[i:i + batch_size]
Batch(ts, i, size) == Slice(ts, i, i + size)

RECURSIVE Flatten(_)
Flatten(batches) ==
  IF batches = <<>> THEN <<>> ELSE Head(batches) \o Flatten(Tail(batches))

\* the statements of one call have not started
EmbedReady == eState = "idle"

\* embedding = self.model.encode(text); return embedding.tolist()
GenerateEmbedding(text, backendOk, dim) ==
  /\ EmbedReady
  /\ eOp' = "single"
  /\ texts' = <<text>>
  /\ IF GenerateEmbeddingRaises(text, backendOk)
     THEN /\ eState' = "raised"
          /\ submitted' = IF Len(text) = 0 \/ Len(Strip(text)) = 0
                          THEN submitted ELSE Append(submitted, <<text>>)
          /\ eOut' = <<>>
     ELSE /\ eState' = "returned"
          /\ submitted' = Append(submitted, <<text>>)
          /\ eOut' = <<Vector(text, dim)>>
  /\ UNCHANGED <<embedding_dim, batch_size, batchStart, all_embeddings>>
  /\ UNCHANGED notEmbedVars

\* if not texts: raise EmbeddingError; all_embeddings = [];
\* for i in range(0, total, batch_size): range() rejects a step of zero
BatchCall(ts, size) ==
  /\ EmbedReady
  /\ eOp' = "batch"
  /\ texts' = ts
  /\ batch_size' = size
  /\ eState' = IF ts = <<>> \/ size = 0 THEN "raised" ELSE "batch"
  /\ UNCHANGED <<embedding_dim, batchStart, all_embeddings, submitted, eOut>>
  /\ UNCHANGED notEmbedVars

OnBatchFailure_Skip == "batch"

\* except Exception as e: raise EmbeddingError(f"Batch {batch_num} failed"),
\* re-raised by the outer handler
OnBatchFailure == "raised"

\* one iteration of the loop: the batch is encoded and the list extended
EncodeBatch(backendOk, dim) ==
  /\ eState = "batch"
  /\ batchStart < Len(texts)
  /\ submitted' = Append(submitted, Batch(texts, batchStart, batch_size))
  /\ IF backendOk
     THEN /\ all_embeddings' =
               all_embeddings \o Encode(Batch(texts, batchStart, batch_size), dim)
          /\ batchStart' = batchStart + batch_size
          /\ eState' = eState
     ELSE /\ all_embeddings' = all_embeddings
          /\ batchStart' = batchStart + batch_size
          /\ eState' = OnBatchFailure
  /\ UNCHANGED <<embedding_dim, eOp, texts, batch_size, eOut>>
  /\ UNCHANGED notEmbedVars

\* the range is exhausted: return all_embeddings
BatchReturn ==
  /\ eState = "batch"
  /\ batchStart >= Len(texts)
  /\ eState' = "returned"
  /\ eOut' = all_embeddings
  /\ UNCHANGED <<embedding_dim, eOp, texts, batch_size, batchStart, all_embeddings,
                 submitted>>
  /\ UNCHANGED notEmbedVars

EmbedInit ==
  /\ embedding_dim \in ModelDims
  /\ eState = "idle"
  /\ eOp = "none"
  /\ texts = <<>>
  /\ batch_size = 1
  /\ batchStart = 0
  /\ all_embeddings = <<>>
  /\ submitted = <<>>
  /\ eOut = <<>>
  /\ SearchIdle
  /\ IngestIdle
  /\ StoreIdle
  /\ FrontIdle

EmbedNext ==
  \/ \E text \in Queries, backendOk \in BOOLEAN, dim \in ModelDims :
       GenerateEmbedding(text, backendOk, dim)
  \/ \E ts \in TextLists, size \in BatchSizes : BatchCall(ts, size)
  \/ \E backendOk \in BOOLEAN, dim \in ModelDims : EncodeBatch(backendOk, dim)
  \/ BatchReturn

EmbedSpec == EmbedInit /\ [][EmbedNext]_vars

(***************************************************************************)
(* Properties of the EmbeddingGenerator, checked under EmbedSpec.          *)
(***************************************************************************)
\* C12: generate_embeddings_batch returns exactly len(texts) vectors, the
\* i-th being the embedding of texts[i], or raises: a failed batch ends the
\* call with an error and nothing returned, the batches go to the backend
\* one at a time in input order, and an empty input raises.
C12_AllOrError ==
  eOp = "batch" =>
    /\ \A b \in 1..Len(submitted) :
         Len(submitted[b]) >= 1 /\ Len(submitted[b]) <= batch_size
    /\ Flatten(submitted) = SubSeq(texts, 1, Len(Flatten(submitted)))
    /\ eState = "batch" => Len(all_embeddings) = Len(Flatten(submitted))
    /\ eState = "returned" =>
         /\ Len(eOut) = Len(texts)
         /\ \A k \in 1..Len(texts) : eOut[k].text = texts[k]
         /\ Flatten(submitted) = texts
    /\ eState = "raised" => eOut = <<>>
    /\ texts = <<>> => eState = "raised"

\* a list that needed more than one batch came back whole
C12_Witness ==
  /\ eOp = "batch"
  /\ eState = "returned"
  /\ Len(submitted) >= 2
  /\ Len(eOut) = MaxTexts

\* C13: every vector the generator returns has length exactly D, the
\* generator's embedding dimension: a backend vector of another length is
\* never returned.
C13_DimensionValidated ==
  eState = "returned" => \A k \in 1..Len(eOut) : eOut[k].dim = embedding_dim

(***************************************************************************)
(* VectorStoreManager and the Qdrant collection behind it.  Every store    *)
(* call is one step.  A call is refused for what it asks (a get on an      *)
(* absent collection, a create on an existing one, an upsert of vectors    *)
(* of another dimension); against a flaky store it may also fail with no   *)
(* effect ("error") or take effect and still raise ("timeout").            *)
(***************************************************************************)
MaxStored == 3

MaxPoints == 2

Outcomes == IF health = "healthy" THEN {"ok"} ELSE {"ok", "error", "timeout"}

\* create_collection(vectors_config=VectorParams(size=dim, distance=COSINE))
Created(dim) == [exists |-> TRUE, dim |-> dim, points |-> {}, indexes |-> {}]

\* one store call of a method and whether it raised
Call(name, arg, raised) == [call |-> name, arg |-> arg, raised |-> raised]

\* VectorStoreManager(): __init__ starts, nothing called yet
Started(c) ==
  [NoManager EXCEPT !.pc = "get", !.op = "__init__", !.pre = c]

DimensionMismatch_Never(existing_dim, expected_dim) == FALSE

DimensionMismatch_Always(existing_dim, expected_dim) == TRUE

\* if existing_dim != expected_dim:
DimensionMismatch(existing_dim, expected_dim) == existing_dim # expected_dim

\* info = self.client.get_collection(self.collection_name)
GetCollection(w, o) ==
  /\ mgr[w].pc = "get"
  /\ LET raised == o # "ok" \/ ~coll.exists
         next   == IF raised THEN "handler"
                   ELSE IF DimensionMismatch(coll.dim, EXPECTED_DIM) THEN "delete"
                   ELSE "index_filename"
     IN  mgr' = [mgr EXCEPT ![w].log = Append(@, Call("get_collection", "", raised)),
                            ![w].pc = next,
                            ![w].mid = IF next = "index_filename" THEN coll ELSE @]
  /\ UNCHANGED <<coll, health, nextId>>
  /\ UNCHANGED notStoreVars

\* self.client.delete_collection(self.collection_name)
DeleteCollection(w, o) ==
  /\ mgr[w].pc = "delete"
  /\ coll' = IF o # "error" THEN Absent ELSE coll
  /\ mgr' = [mgr EXCEPT ![w].log = Append(@, Call("delete_collection", "", o # "ok")),
                        ![w].pc = IF o # "ok" THEN "handler" ELSE "create"]
  /\ UNCHANGED <<health, nextId>>
  /\ UNCHANGED notStoreVars

\* self.client.create_collection(...) after the delete
CreateCollection(w, o) ==
  /\ mgr[w].pc = "create"
  /\ LET raised == coll.exists \/ o # "ok"
         after  == IF ~coll.exists /\ o # "error" THEN Created(EXPECTED_DIM) ELSE coll
     IN  /\ coll' = after
         /\ mgr' = [mgr EXCEPT ![w].log = Append(@, Call("create_collection", "", raised)),
                               ![w].pc = IF raised THEN "handler" ELSE "index_filename",
                               ![w].mid = IF raised THEN @ ELSE after]
  /\ UNCHANGED <<health, nextId>>
  /\ UNCHANGED notStoreVars

\* except Exception: self.client.create_collection(...); an error of this
\* call leaves _ensure_collection and __init__ raises VectorStoreError
CreateInHandler(w, o) ==
  /\ mgr[w].pc = "handler"
  /\ LET raised == coll.exists \/ o # "ok"
         after  == IF ~coll.exists /\ o # "error" THEN Created(EXPECTED_DIM) ELSE coll
     IN  /\ coll' = after
         /\ mgr' = [mgr EXCEPT ![w].log = Append(@, Call("create_collection", "", raised)),
                               ![w].pc = IF raised THEN "failed" ELSE "index_filename",
                               ![w].ret = IF raised THEN "raised" ELSE @,
                               ![w].mid = IF raised THEN @ ELSE after]
  /\ UNCHANGED <<health, nextId>>
  /\ UNCHANGED notStoreVars

OnIndexFailure_Propagate == "failed"

\* except Exception: logger.debug(...): the error is dropped
OnIndexFailure == "swallowed"

\* self.client.create_payload_index(field_name=field, ...) inside its own
\* try; whether the store refuses an index that exists is left open
CreatePayloadIndex(w, field, o, refuseExisting, next) ==
  LET refused == ~coll.exists \/ (field \in coll.indexes /\ refuseExisting)
      raised  == refused \/ o # "ok"
  IN  /\ coll' = IF ~refused /\ o # "error"
                 THEN [coll EXCEPT !.indexes = @ \cup {field}] ELSE coll
      /\ mgr' = [mgr EXCEPT
                   ![w].log = Append(@, Call("create_payload_index", field, raised)),
                   ![w].pc = IF raised /\ OnIndexFailure # "swallowed"
                             THEN OnIndexFailure ELSE next,
                   ![w].ret = IF raised /\ OnIndexFailure # "swallowed" THEN "raised"
                              ELSE IF next = "ready" THEN "constructed" ELSE @]
      /\ UNCHANGED <<health, nextId>>
      /\ UNCHANGED notStoreVars

\* field_name="filename", field_schema=PayloadSchemaType.KEYWORD
CreateFilenameIndex(w, o, refuseExisting) ==
  /\ mgr[w].pc = "index_filename"
  /\ CreatePayloadIndex(w, "filename", o, refuseExisting, "index_page")

\* field_name="page_number", field_schema=PayloadSchemaType.INTEGER
CreatePageIndex(w, o, refuseExisting) ==
  /\ mgr[w].pc = "index_page"
  /\ CreatePayloadIndex(w, "page_number", o, refuseExisting, "ready")

\* another VectorStoreManager() is constructed (PDFService, QueryService and
\* the sidebar each build their own)
Restart(w) ==
  /\ mgr[w].pc \in {"ready", "failed"}
  /\ mgr' = [mgr EXCEPT ![w] = Started(coll)]
  /\ UNCHANGED <<coll, health, nextId>>
  /\ UNCHANGED notStoreVars

\* the payload of test_add_and_search_points
TestPayload ==
  [filename |-> FileA, page_number |-> 1, content_type |-> "text",
   content |-> <<"T", "e", "s", "t">>]

\* if not embeddings or not payloads:
EmptyInput(embeddings, payload_list) == embeddings = <<>> \/ payload_list = <<>>

LengthsDiffer_Never(embeddings, payload_list) == FALSE

\* if len(embeddings) != len(payloads):
LengthsDiffer(embeddings, payload_list) == Len(embeddings) # Len(payload_list)

PointId_FromContent(base, k, payload) == payload.page_number

\* point_id = str(uuid.uuid4()): an id no other point has
PointId(base, k, payload) == base + k

\* for embedding, payload in zip(embeddings, payloads): points.append(...)
NewPoints(embeddings, payload_list, base) ==
  [k \in 1..Min(Len(embeddings), Len(payload_list)) |->
     [id |-> PointId(base, k, payload_list[k]), vector |-> embeddings[k],
      payload |-> payload_list[k]]]

\* client.upsert: a point replaces the stored point of the same id
Upsert(stored, points) ==
  {p \in stored : \A k \in 1..Len(points) : points[k].id # p.id}
  \cup {points[k] : k \in 1..Len(points)}

\* Qdrant refuses an upsert into an absent collection and an upsert of a
\* vector whose length is not the collection's
UpsertRefused(c, points) ==
  \/ ~c.exists
  \/ \E k \in 1..Len(points) : points[k].vector.dim # c.dim

\* VectorStoreManager.add_points(embeddings, payloads), with n vectors of
\* the generator's dimension and m payloads
AddPoints(w, n, m, o) ==
  /\ mgr[w].pc = "ready"
  /\ LET embeddings == [k \in 1..n |-> Vector(<<"q">>, embedding_dim)]
         payload_list == [k \in 1..m |-> TestPayload]
         invalid    == EmptyInput(embeddings, payload_list)
                       \/ LengthsDiffer(embeddings, payload_list)
         points     == NewPoints(embeddings, payload_list, nextId)
         refused    == UpsertRefused(coll, points)
         raised     == refused \/ o # "ok"
         stored     == ~invalid /\ ~refused /\ o # "error"
         called     == [mgr[w] EXCEPT !.op = "add_points", !.pre = coll, !.mid = coll,
                                      !.embeddings = embeddings, !.payloads = payload_list]
     IN  /\ stored => Cardinality(coll.points) + Len(points) <= MaxStored
         /\ coll' = IF stored THEN [coll EXCEPT !.points = Upsert(@, points)] ELSE coll
         /\ nextId' = IF stored THEN nextId + Len(points) ELSE nextId
         /\ mgr' = [mgr EXCEPT ![w] =
                      IF invalid
                      THEN [called EXCEPT !.log = <<>>, !.ret = "False"]
                      ELSE [called EXCEPT
                              !.log = <<Call("upsert", Str(Len(points)), raised)>>,
                              !.ret = IF raised THEN "raised" ELSE "True"]]
  /\ UNCHANGED health
  /\ UNCHANGED notStoreVars

\* self.vector_store.add_multimodal_points(embeddings, payloads): the
\* manager has no such method, the attribute lookup raises and no store
\* call is made
AddMultimodalPoints(w, n) ==
  /\ mgr[w].pc = "ready"
  /\ mgr' = [mgr EXCEPT ![w].op = "add_multimodal_points",
                        ![w].pre = coll, ![w].mid = coll,
                        ![w].embeddings = [k \in 1..n |-> Vector(<<"q">>, embedding_dim)],
                        ![w].payloads = [k \in 1..n |-> TestPayload],
                        ![w].log = <<>>,
                        ![w].ret = "AttributeError"]
  /\ UNCHANGED <<coll, health, nextId>>
  /\ UNCHANGED notStoreVars

\* EmbeddingGenerator(model_name): a model of another dimension is loaded
LoadModel(dim) ==
  /\ eState = "idle"
  /\ dim # embedding_dim
  /\ embedding_dim' = dim
  /\ UNCHANGED <<eState, eOp, texts, batch_size, batchStart, all_embeddings,
                 submitted, eOut>>
  /\ UNCHANGED <<searchVars, ingestVars, storeVars, contextVars, batchVars>>

\* the point an earlier ingestion left in the collection
SeedPoints(dim) ==
  {[id |-> 0, vector |-> Vector(<<"r">>, dim), payload |-> TestPayload]}

InitialCollections ==
  {Absent}
  \cup UNION { { [exists |-> TRUE, dim |-> d, points |-> ps, indexes |-> ix] :
                   ps \in {{}, SeedPoints(d)},
                   ix \in {{}, {"filename", "page_number"}} } : d \in ModelDims }

\* the client of the store: one process constructing and using managers
Client == 1

StoreInit ==
  /\ coll \in InitialCollections
  /\ health \in {"healthy", "flaky"}
  /\ mgr = [w \in Workers |-> IF w = Client THEN Started(coll) ELSE NoManager]
  /\ nextId = 0
  /\ SearchIdle
  /\ IngestIdle
  /\ EmbedIdle
  /\ FrontIdle

StoreNext ==
  \/ \E o \in Outcomes : GetCollection(Client, o)
  \/ \E o \in Outcomes : DeleteCollection(Client, o)
  \/ \E o \in Outcomes : CreateCollection(Client, o)
  \/ \E o \in Outcomes : CreateInHandler(Client, o)
  \/ \E o \in Outcomes, refuseExisting \in BOOLEAN :
       CreateFilenameIndex(Client, o, refuseExisting)
  \/ \E o \in Outcomes, refuseExisting \in BOOLEAN :
       CreatePageIndex(Client, o, refuseExisting)
  \/ Restart(Client)
  \/ \E n \in 0..MaxPoints, m \in 0..MaxPoints, o \in Outcomes :
       AddPoints(Client, n, m, o)
  \/ \E n \in 1..MaxPoints : AddMultimodalPoints(Client, n)
  \/ \E dim \in ModelDims : LoadModel(dim)

StoreSpec == StoreInit /\ [][StoreNext]_vars

\* the client keeps taking steps
FairStoreSpec == StoreSpec /\ WF_vars(StoreNext)

(***************************************************************************)
(* Several workers construct their manager at process start, the           *)
(* collection being absent and the store healthy.                          *)
(***************************************************************************)
WorkersInit ==
  /\ coll = Absent
  /\ health = "healthy"
  /\ mgr = [w \in Workers |-> Started(Absent)]
  /\ nextId = 0
  /\ SearchIdle
  /\ IngestIdle
  /\ EmbedIdle
  /\ FrontIdle

WorkersNext ==
  \E w \in Workers :
    \/ \E o \in Outcomes : GetCollection(w, o)
    \/ \E o \in Outcomes : CreateInHandler(w, o)
    \/ \E o \in Outcomes, refuseExisting \in BOOLEAN :
         CreateFilenameIndex(w, o, refuseExisting)
    \/ \E o \in Outcomes, refuseExisting \in BOOLEAN :
         CreatePageIndex(w, o, refuseExisting)

WorkersSpec == WorkersInit /\ [][WorkersNext]_vars

(***************************************************************************)
(* Several workers construct their manager against whatever collection     *)
(* the store holds, and use it once it is constructed.                     *)
(***************************************************************************)
RaceInit ==
  /\ coll \in InitialCollections
  /\ health = "healthy"
  /\ mgr = [w \in Workers |-> Started(coll)]
  /\ nextId = 0
  /\ SearchIdle
  /\ IngestIdle
  /\ EmbedIdle
  /\ FrontIdle

RaceNext ==
  \E w \in Workers :
    \/ \E o \in Outcomes : GetCollection(w, o)
    \/ \E o \in Outcomes : DeleteCollection(w, o)
    \/ \E o \in Outcomes : CreateCollection(w, o)
    \/ \E o \in Outcomes : CreateInHandler(w, o)
    \/ \E o \in Outcomes, refuseExisting \in BOOLEAN :
         CreateFilenameIndex(w, o, refuseExisting)
    \/ \E o \in Outcomes, refuseExisting \in BOOLEAN :
         CreatePageIndex(w, o, refuseExisting)
    \/ \E n \in 1..MaxPoints, o \in Outcomes : AddPoints(w, n, n, o)

RaceSpec == RaceInit /\ [][RaceNext]_vars

(***************************************************************************)
(* The end of process_and_index_pdf: the embeddings come back or the       *)
(* generator raises, then the index call.  The PDFService holds the        *)
(* manager its constructor built, on a collection an earlier ingestion     *)
(* left a point in.                                                        *)
(***************************************************************************)
\* the collection the service starts on
ServiceCollection ==
  [exists |-> TRUE, dim |-> EXPECTED_DIM, points |-> SeedPoints(EXPECTED_DIM),
   indexes |-> {"filename", "page_number"}]

\* self.vector_store = VectorStoreManager(), constructed on that collection
ServiceManager ==
  [Started(ServiceCollection) EXCEPT
     !.pc = "ready", !.ret = "constructed", !.mid = ServiceCollection,
     !.log = <<Call("get_collection", "", FALSE),
               Call("create_payload_index", "filename", FALSE),
               Call("create_payload_index", "page_number", FALSE)>>]

OnIngestError_Propagate == "raised"

\* except Exception as e: ... return False
OnIngestError == "False"

\* generate_embeddings_batch raised EmbeddingError
EmbeddingFailed ==
  /\ ipc = "embedded"
  /\ eState = "raised"
  /\ ipc' = "returned"
  /\ ret' = OnIngestError
  /\ UNCHANGED <<doc, result, elemIdx, winStart, chunks, payloads, origin, windows,
                 embedInput>>
  /\ UNCHANGED notIngestVars

\* self.vector_store.add_multimodal_points(embeddings, payloads):
\* VectorStoreManager defines no such method, so the attribute lookup
\* raises, no store call is made and the handler returns False
IndexChunks ==
  /\ ipc = "embedded"
  /\ eState = "returned"
  /\ mgr' = [mgr EXCEPT ![Client].op = "add_multimodal_points",
                        ![Client].pre = coll, ![Client].mid = coll,
                        ![Client].embeddings = eOut,
                        ![Client].payloads = payloads,
                        ![Client].log = <<>>,
                        ![Client].ret = "AttributeError"]
  /\ ipc' = "returned"
  /\ ret' = OnIngestError
  /\ UNCHANGED <<doc, result, elemIdx, winStart, chunks, payloads, origin, windows,
                 embedInput>>
  /\ UNCHANGED <<coll, health, nextId>>
  /\ UNCHANGED <<searchVars, embedVars, contextVars, batchVars>>

IngestInit ==
  /\ doc \in Docs
  /\ ipc = "start"
  /\ result = NoResult
  /\ elemIdx = 0
  /\ winStart = 0
  /\ chunks = <<>>
  /\ payloads = <<>>
  /\ origin = <<>>
  /\ windows = <<>>
  /\ embedInput = <<>>
  /\ ret = "none"
  /\ SearchIdle
  /\ EmbedIdle
  /\ coll = ServiceCollection
  /\ health = "healthy"
  /\ mgr = [w \in Workers |-> IF w = Client THEN ServiceManager ELSE NoManager]
  /\ nextId = 0
  /\ FrontIdle

IngestNext ==
  \/ Extract
  \/ TextElement
  \/ TextWindow
  \/ TextDone
  \/ ImageElement
  \/ NoChunks
  \/ EmbedChunks
  \/ \E backendOk \in BOOLEAN : EncodeBatch(backendOk, embedding_dim)
  \/ BatchReturn
  \/ EmbeddingFailed
  \/ IndexChunks

IngestSpec == IngestInit /\ [][IngestNext]_vars

\* the statements of one call run to completion
FairIngestSpec == IngestSpec /\ WF_vars(IngestNext)

(***************************************************************************)
(* Properties of the VectorStoreManager, checked under StoreSpec.          *)
(***************************************************************************)
\* the client's manager
TheManager == mgr[Client]

\* _ensure_collection of the manager under construction has returned
\* normally and the manager has not been asked to add points yet
EnsureReturned ==
  /\ TheManager.op = "__init__"
  /\ TheManager.pc \in {"index_filename", "index_page", "ready"}

\* the store calls of the given name the current method has made
CallsOf(name) ==
  {k \in 1..Len(TheManager.log) : TheManager.log[k].call = name}

\* the collection exists with the expected dimension
Matching(c) == c.exists /\ c.dim = EXPECTED_DIM

\* C14: after _ensure_collection returns normally the collection exists
\* with the expected dimension; an absent collection was created with it,
\* and a collection of another dimension was deleted and re-created empty,
\* so none of its points is left.
C14_EnsureCollection ==
  EnsureReturned =>
    /\ Matching(coll)
    /\ ~TheManager.pre.exists =>
         /\ coll.points = {}
         /\ \E k \in CallsOf("create_collection") : ~TheManager.log[k].raised
    /\ (TheManager.pre.exists /\ TheManager.pre.dim # EXPECTED_DIM) =>
         /\ coll.points = {}
         /\ CallsOf("delete_collection") # {}
         /\ \E k \in CallsOf("create_collection") : ~TheManager.log[k].raised

\* a collection of dimension 768 holding a point was replaced by an empty
\* collection of dimension 384
C14_Witness ==
  /\ EnsureReturned
  /\ TheManager.pre.exists
  /\ TheManager.pre.dim = TEST_DIM
  /\ TheManager.pre.points # {}
  /\ coll = Created(EXPECTED_DIM)

\* get_collection answered the current __init__
GetAnswered ==
  /\ TheManager.op = "__init__"
  /\ TheManager.log # <<>>
  /\ TheManager.log[1] = Call("get_collection", "", FALSE)

C16_ConcurrentEnsureSafe ==
  /\ \A w \in Workers : mgr[w].pc # "failed"
  /\ (\A w \in Workers : mgr[w].pc = "ready") => Matching(coll)

\* a point embedded with D=384 is in the collection, the generator has
\* been switched to a model with D=768 and the store is healthy
SwitchedAfterIngestion ==
  /\ health = "healthy"
  /\ embedding_dim = TEST_DIM
  /\ \E p \in coll.points : p.vector.dim = EXPECTED_DIM

\* an ingestion of 768-long vectors succeeded on a collection of dimension
\* 768 that holds no 384-long vector
SecondIngestionSucceeded ==
  /\ TheManager.op \in {"add_points", "add_multimodal_points"}
  /\ TheManager.ret = "True"
  /\ TheManager.embeddings # <<>>
  /\ \A k \in 1..Len(TheManager.embeddings) : TheManager.embeddings[k].dim = TEST_DIM
  /\ coll.exists
  /\ coll.dim = TEST_DIM
  /\ \A p \in coll.points : p.vector.dim = TEST_DIM

\* every stored vector has the dimension of the collection
StoredDimensionsAgree ==
  coll.exists => \A p \in coll.points : p.vector.dim = coll.dim

\* C17: after a document was ingested with D=384, switching to a model
\* with D=768 and ingesting again leads to the collection being re-created
\* with dimension 768 and the second ingestion succeeding, with no point of
\* the first ingestion left; and no vector of a dimension other than the
\* collection's is ever stored.  Checked under FairStoreSpec.
C17_ModelSwitchRecreates ==
  /\ SwitchedAfterIngestion ~> SecondIngestionSucceeded
  /\ []StoredDimensionsAgree

BothIndexes == {"filename", "page_number"}

\* __init__ has returned and the manager has not been used since
Constructed == TheManager.op = "__init__" /\ TheManager.pc = "ready"

\* C18: _ensure_payload_indexes never raises and is idempotent: an index
\* that exists is left as it is, a failed attempt on 'filename' is followed
\* by the attempt on 'page_number', a call that finds both indexes leaves
\* both, and against a healthy store every call leaves exactly the two.
C18_EnsureIndexes ==
  /\ TheManager.pc = "failed" => CallsOf("create_payload_index") = {}
  /\ coll.indexes \subseteq BothIndexes
  /\ Constructed =>
       LET log  == TheManager.log
           last == Len(log)
       IN  /\ last >= 3
           /\ log[last - 1].call = "create_payload_index"
           /\ log[last - 1].arg = "filename"
           /\ log[last].call = "create_payload_index"
           /\ log[last].arg = "page_number"
           /\ \A k \in {last - 1, last} : ~log[k].raised => log[k].arg \in coll.indexes
           /\ TheManager.mid.indexes \subseteq coll.indexes
           /\ TheManager.mid.indexes = BothIndexes => coll.indexes = BothIndexes
           /\ health = "healthy" => coll.indexes = BothIndexes

\* the attempt on 'filename' failed and 'page_number' was still indexed
C18_Witness ==
  /\ Constructed
  /\ TheManager.log[Len(TheManager.log) - 1].raised
  /\ ~TheManager.log[Len(TheManager.log)].raised
  /\ coll.indexes = {"page_number"}

\* the last method called on the manager is add_points
AddReturned == TheManager.op = "add_points"

\* the points the last add_points call put into the collection
Added == coll.points \ TheManager.pre.points

\* the call passed both input checks
ValidInput ==
  /\ Len(TheManager.embeddings) >= 1
  /\ Len(TheManager.embeddings) = Len(TheManager.payloads)

\* C19: add_points is all-or-nothing: with an empty input or inputs of
\* unequal length it makes no upsert, leaves the collection unchanged and
\* returns False; otherwise it makes exactly one upsert of the whole batch,
\* and it returns True only if that upsert did not fail, else it raises one
\* error for the batch.
C19_AllOrNothing ==
  AddReturned =>
    /\ ~ValidInput =>
         /\ TheManager.ret = "False"
         /\ TheManager.log = <<>>
         /\ coll = TheManager.pre
    /\ ValidInput =>
         /\ Len(TheManager.log) = 1
         /\ TheManager.log[1].call = "upsert"
         /\ TheManager.log[1].arg = Str(Len(TheManager.embeddings))
         /\ TheManager.ret = IF TheManager.log[1].raised THEN "raised" ELSE "True"
         /\ Cardinality(Added) \in {0, Len(TheManager.embeddings)}
         /\ TheManager.ret = "True" => Cardinality(Added) = Len(TheManager.embeddings)

\* the upsert of a batch of MaxPoints points failed and the call raised
C19_Witness ==
  /\ AddReturned
  /\ Len(TheManager.embeddings) = MaxPoints
  /\ ValidInput
  /\ TheManager.ret = "raised"
  /\ Added = {}

Rankings(points) ==
  {r \in [1..Cardinality(points) -> points] : \A p \in points : \E k \in DOMAIN r : r[k] = p}

\* a search with a limit covering the collection returns the point, with
\* and without the filter on its file name
Retrievable(p) ==
  \A r \in Rankings(coll.points) :
    \A f \in {<<>>, p.payload.filename} :
      \E k \in 1..Len(VectorStoreSearch(r, Cardinality(coll.points), BuildFilter(f))) :
        VectorStoreSearch(r, Cardinality(coll.points), BuildFilter(f))[k] = p

\* the vectors of the call have the dimension of the collection
DimensionsAgree ==
  \A k \in 1..Len(TheManager.embeddings) :
    TheManager.embeddings[k].dim = TheManager.pre.dim

IndexedPoints == coll.points \ ServiceCollection.points

\* the call is over, chunks were produced and the embeddings came back
EmbeddedAndDone == ipc = "returned" /\ chunks # <<>> /\ eState = "returned"

\* C21: when extraction yields at least one chunk and the embedding
\* backend and the vector store are healthy, process_and_index_pdf reports
\* success and the collection has gained exactly one point per chunk.
C21_IndexedEqualsChunks ==
  (EmbeddedAndDone /\ health = "healthy") =>
    /\ ret = "True"
    /\ Cardinality(IndexedPoints) = Len(chunks)

\* the number of chunks made from the given page
ChunksOfPage(n) ==
  Cardinality({i \in 1..Len(payloads) : payloads[i].page_number = n})

\* C22: ingesting a 3-page document whose page 2 is empty gives zero chunks
\* for page 2, chunks for pages 1 and 3, and a success report with as many
\* indexed points as pages 1 and 3 have chunks.
C22_EmptyMiddlePage ==
  (doc \in ThreePageDocs /\ EmbeddedAndDone) =>
    /\ ChunksOfPage(2) = 0
    /\ ChunksOfPage(1) > 0
    /\ ChunksOfPage(3) > 0
    /\ ret = "True"
    /\ Cardinality(IndexedPoints) = ChunksOfPage(1) + ChunksOfPage(3)

\* the embeddings and payloads were handed to the vector store
HandedToStore == ipc = "returned" /\ mgr[Client].op = "add_multimodal_points"

C28_FailuresBecomeFalse ==
  /\ ret \in {"none", "True", "False"}
  /\ ipc = "returned" => ret \in {"True", "False"}
  /\ (ExtractionFailedOutcome \/ ZeroChunksOutcome) =>
       /\ ret = "False"
       /\ eOp = "none"
       /\ submitted = <<>>
       /\ mgr[Client] = ServiceManager
       /\ coll = ServiceCollection
  /\ (ipc = "returned" /\ eState = "raised") =>
       /\ ret = "False"
       /\ mgr[Client] = ServiceManager
       /\ IndexedPoints = {}

\* the embedding backend failed on the chunks of a document
C28_Witness ==
  /\ ipc = "returned"
  /\ eState = "raised"
  /\ submitted = <<chunks>>
  /\ ret = "False"

(***************************************************************************)
(* QueryService.enhance_query and QueryService.get_context_for_query.      *)
(***************************************************************************)
\* query.lower()
Lower(s) ==
  LET UpperCase ==
        <<"A", "B", "C", "D", "E", "F", "G", "H", "I", "J", "K", "L", "M", "N",
        "O", "P", "Q", "R", "S", "T", "U", "V", "W", "X", "Y", "Z">>
      LowerCase ==
        <<"a", "b", "c", "d", "e", "f", "g", "h", "i", "j", "k", "l", "m", "n",
        "o", "p", "q", "r", "s", "t", "u", "v", "w", "x", "y", "z">>
      LowerChar(c) ==
        IF \E k \in 1..Len(UpperCase) : UpperCase[k] = c
        THEN LowerCase[CHOOSE k \in 1..Len(UpperCase) : UpperCase[k] = c]
        ELSE c
  IN  [i \in 1..Len(s) |-> LowerChar(s[i])]

\* the dict query_enhancements, in insertion order
QueryEnhancements ==
  <<
    [pattern |->
       <<"p", "r", "o", "v", "i", "d", "e", " ", "a", " ", "c", "o", "m",
       "p", "r", "e", "h", "e", "n", "s", "i", "v", "e", " ", "s", "u",
       "m", "m", "a", "r", "y">>,
     enhancement |->
       <<"a", "b", "s", "t", "r", "a", "c", "t", " ", "i", "n", "t", "r",
       "o", "d", "u", "c", "t", "i", "o", "n", " ", "c", "o", "n", "c",
       "l", "u", "s", "i", "o", "n">>],
    [pattern |->
       <<"s", "u", "m", "m", "a", "r", "i", "z", "e">>,
     enhancement |->
       <<"a", "b", "s", "t", "r", "a", "c", "t", " ", "i", "n", "t", "r",
       "o", "d", "u", "c", "t", "i", "o", "n", " ", "c", "o", "n", "c",
       "l", "u", "s", "i", "o", "n">>],
    [pattern |->
       <<"s", "u", "m", "m", "a", "r", "y">>,
     enhancement |->
       <<"a", "b", "s", "t", "r", "a", "c", "t", " ", "i", "n", "t", "r",
       "o", "d", "u", "c", "t", "i", "o", "n", " ", "c", "o", "n", "c",
       "l", "u", "s", "i", "o", "n">>],
    [pattern |->
       <<"w", "h", "a", "t", " ", "a", "r", "e", " ", "t", "h", "e", " ",
       "k", "e", "y", " ", "p", "o", "i", "n", "t", "s">>,
     enhancement |->
       <<"c", "o", "n", "c", "l", "u", "s", "i", "o", "n", " ", "k", "e",
       "y", " ", "f", "i", "n", "d", "i", "n", "g", "s">>],
    [pattern |->
       <<"k", "e", "y", " ", "p", "o", "i", "n", "t", "s">>,
     enhancement |->
       <<"c", "o", "n", "c", "l", "u", "s", "i", "o", "n", " ", "k", "e",
       "y", " ", "f", "i", "n", "d", "i", "n", "g", "s">>],
    [pattern |->
       <<"w", "h", "a", "t", " ", "a", "r", "e", " ", "t", "h", "e", " ",
       "m", "a", "i", "n", " ", "t", "o", "p", "i", "c", "s">>,
     enhancement |->
       <<"i", "n", "t", "r", "o", "d", "u", "c", "t", "i", "o", "n", " ",
       "o", "v", "e", "r", "v", "i", "e", "w">>],
    [pattern |->
       <<"m", "a", "i", "n", " ", "t", "o", "p", "i", "c", "s">>,
     enhancement |->
       <<"i", "n", "t", "r", "o", "d", "u", "c", "t", "i", "o", "n", " ",
       "o", "v", "e", "r", "v", "i", "e", "w">>],
    [pattern |->
       <<"g", "i", "v", "e", " ", "d", "e", "t", "a", "i", "l", "e", "d",
       " ", "i", "n", "f", "o", "r", "m", "a", "t", "i", "o", "n">>,
     enhancement |->
       <<"m", "e", "t", "h", "o", "d", " ", "m", "e", "t", "h", "o", "d",
       "o", "l", "o", "g", "y", " ", "r", "e", "s", "u", "l", "t", "s">>],
    [pattern |->
       <<"d", "e", "t", "a", "i", "l", "s">>,
     enhancement |->
       <<"m", "e", "t", "h", "o", "d", " ", "m", "e", "t", "h", "o", "d",
       "o", "l", "o", "g", "y", " ", "r", "e", "s", "u", "l", "t", "s">>],
    [pattern |->
       <<"e", "x", "p", "l", "a", "i", "n", " ", "t", "a", "b", "l", "e">>,
     enhancement |->
       <<"t", "a", "b", "l", "e">>],
    [pattern |->
       <<"e", "x", "p", "l", "a", "i", "n", " ", "f", "i", "g", "u", "r",
       "e">>,
     enhancement |->
       <<"f", "i", "g", "u", "r", "e">>],
    [pattern |->
       <<"e", "x", "p", "l", "a", "i", "n", " ", "d", "i", "a", "g", "r",
       "a", "m">>,
     enhancement |->
       <<"f", "i", "g", "u", "r", "e", " ", "d", "i", "a", "g", "r", "a",
       "m">>],
    [pattern |->
       <<"t", "a", "b", "l", "e", " ", "1">>,
     enhancement |->
       <<"t", "a", "b", "l", "e", " ", "1">>],
    [pattern |->
       <<"f", "i", "g", "u", "r", "e", " ", "1">>,
     enhancement |->
       <<"f", "i", "g", "u", "r", "e", " ", "1">>]
  >>

\* the first pattern found in query.lower().strip() gives the enhancement;
\* a query no pattern is found in is returned as it is
EnhanceQuery(query) ==
  LET query_lower == Strip(Lower(query))
      hits == {k \in 1..Len(QueryEnhancements) :
                 Contains(query_lower, QueryEnhancements[k].pattern)}
  IN  IF hits = {} THEN query
      ELSE QueryEnhancements[CHOOSE k \in hits : \A j \in hits : k <= j].enhancement

\* the cap in min(limit * 2, 10)
ENHANCED_LIMIT_CAP == 10

\* search_limit = limit; if enhanced_query != query: min(limit * 2, 10)
SearchLimit(query, enhanced, limit) ==
  IF enhanced # query THEN Min(limit * 2, ENHANCED_LIMIT_CAP) ELSE limit

\* min_score: float = 0.3, on the score scale of Scores: the lowest score
\* is below it, every other score is not
DEFAULT_MIN_SCORE == 2

\* self.search(query, limit=limit, filename=filename) against a collection
\* that ranks its points for the query as `ranking`
QuerySearch(query, limit, filename, env, ranking) ==
  LET a == [query |-> query, limit |-> limit, filename |-> filename,
            min_score |-> DEFAULT_MIN_SCORE, env |-> env]
  IN  IF SearchRaises(a)
      THEN [query |-> query, limit |-> limit, filename |-> filename,
            outcome |-> OnException, results |-> <<>>]
      ELSE LET found == VectorStoreSearch(ranking, FetchLimit(limit), BuildFilter(filename))
               out   == FilterLoop(found, 1, {}, <<>>, <<>>, a.min_score, a.limit)
           IN  [query |-> query, limit |-> limit, filename |-> filename,
                outcome |-> "returned", results |-> out.filtered]

NO_CONTEXT_Empty == <<>>

\* "No relevant context found in the documents."
NO_CONTEXT ==
  <<"N", "o", " ", "r", "e", "l", "e", "v", "a", "n", "t", " ", "c", "o",
    "n", "t", "e", "x", "t", " ", "f", "o", "u", "n", "d", " ", "i", "n",
    " ", "t", "h", "e", " ", "d", "o", "c", "u", "m", "e", "n", "t", "s",
    ".">>

SourceLabel_ZeroBased(idx) == idx

\* Source {idx + 1}
SourceLabel(idx) == idx + 1

\* f"[Source {idx + 1} - {filename}, Page {page_number}]\n{content}\n"
ContextPart(idx, r) ==
  <<"[", "S", "o", "u", "r", "c", "e", " ">> \o Str(SourceLabel(idx))
    \o <<" ", "-", " ">> \o r.payload.filename
    \o <<",", " ", "P", "a", "g", "e", " ">> \o Str(r.payload.page_number)
    \o <<"]", "\n">> \o r.payload.content \o <<"\n">>

\* "\n---\n\n"
Delimiter == <<"\n", "-", "-", "-", "\n", "\n">>

\* sep.join(parts)
RECURSIVE Join(_, _)
Join(sep, parts) ==
  IF Len(parts) = 0 THEN <<>>
  ELSE IF Len(parts) = 1 THEN parts[1]
  ELSE parts[1] \o sep \o Join(sep, Tail(parts))

RetryLimit_Boosted(limit, boosted) == boosted

\* results = self.search(query, limit=limit, filename=filename)
RetryLimit(limit, boosted) == limit

\* the calls made.  The questions: "summary" and "summarize key points"
\* (broad, an enhancement pattern is found in them), "Table 1" (differs from
\* its enhancement by case only), "table 1" (equals its enhancement), "q"
\* (no pattern is found in it) and a blank one.  The limits go up to MaxLimit
\* beyond the cap of the boosted limit.
ContextArgs ==
  [query : { <<"s", "u", "m", "m", "a", "r", "y">>,
             <<"s", "u", "m", "m", "a", "r", "i", "z", "e", " ",
               "k", "e", "y", " ", "p", "o", "i", "n", "t", "s">>,
             <<"T", "a", "b", "l", "e", " ", "1">>,
             <<"t", "a", "b", "l", "e", " ", "1">>,
             <<"q">>,
             <<" ">> },
   limit : 1..(ENHANCED_LIMIT_CAP + MaxLimit),
   filename : Filenames]

\* the collection as Qdrant ranks it for one query vector, over three
\* stored points
ContextRankings ==
  LET stored ==
        { TestPayload,
          [filename |-> FileB, page_number |-> 2, content_type |-> "text",
           content |-> ContentS],
          [filename |-> FileA, page_number |-> 12, content_type |-> "text",
           content |-> <<"x", "\n", "y">>] }
  IN  UNION { { s \in [1..n -> [score : Scores, payload : stored]] :
                  \A i \in 1..(n - 1) : s[i].score >= s[i + 1].score } :
              n \in 0..MaxLimit }

\* enhanced_query = self.enhance_query(query); search_limit = ...
GetContext(a) ==
  /\ cpc = "idle"
  /\ cArgs' = a
  /\ enhanced_query' = EnhanceQuery(a.query)
  /\ search_limit' = SearchLimit(a.query, EnhanceQuery(a.query), a.limit)
  /\ cpc' = "search"
  /\ UNCHANGED <<searches, cResults, context>>
  /\ UNCHANGED <<searchVars, ingestVars, embedVars, storeVars, batchVars>>

\* results = self.search(enhanced_query, limit=search_limit, filename=filename)
FirstSearch(env, ranking) ==
  /\ cpc = "search"
  /\ LET call == QuerySearch(enhanced_query, search_limit, cArgs.filename, env, ranking)
     IN  /\ searches' = Append(searches, call)
         /\ cResults' = call.results
         /\ cpc' = IF call.outcome = "returned" THEN "searched" ELSE "raised"
  /\ UNCHANGED <<cArgs, enhanced_query, search_limit, context>>
  /\ UNCHANGED <<searchVars, ingestVars, embedVars, storeVars, batchVars>>

\* if not results: if enhanced_query != query: results = self.search(query, ...)
RetrySearch(env, ranking) ==
  /\ cpc = "searched"
  /\ cResults = <<>>
  /\ enhanced_query # cArgs.query
  /\ LET call == QuerySearch(cArgs.query, RetryLimit(cArgs.limit, search_limit),
                             cArgs.filename, env, ranking)
     IN  /\ searches' = Append(searches, call)
         /\ cResults' = call.results
         /\ cpc' = IF call.outcome = "returned" THEN "retried" ELSE "raised"
  /\ UNCHANGED <<cArgs, enhanced_query, search_limit, context>>
  /\ UNCHANGED <<searchVars, ingestVars, embedVars, storeVars, batchVars>>

\* if not results: return "No relevant context found in the documents."
ReturnNoContext ==
  /\ \/ cpc = "searched" /\ enhanced_query = cArgs.query
     \/ cpc = "retried"
  /\ cResults = <<>>
  /\ context' = NO_CONTEXT
  /\ cpc' = "returned"
  /\ UNCHANGED <<cArgs, enhanced_query, search_limit, searches, cResults>>
  /\ UNCHANGED <<searchVars, ingestVars, embedVars, storeVars, batchVars>>

\* for idx, result in enumerate(results): context_parts.append(...);
\* full_context = "\n---\n\n".join(context_parts); return full_context
BuildContext ==
  /\ cpc \in {"searched", "retried"}
  /\ cResults # <<>>
  /\ LET context_parts == [k \in 1..Len(cResults) |-> ContextPart(k - 1, cResults[k])]
     IN  context' = Join(Delimiter, context_parts)
  /\ cpc' = "returned"
  /\ UNCHANGED <<cArgs, enhanced_query, search_limit, searches, cResults>>
  /\ UNCHANGED <<searchVars, ingestVars, embedVars, storeVars, batchVars>>

\* nothing has been called yet
FrontInit ==
  /\ SearchIdle
  /\ IngestIdle
  /\ EmbedIdle
  /\ StoreIdle
  /\ FrontIdle

ContextNext ==
  \/ \E a \in ContextArgs : GetContext(a)
  \/ \E env \in Envs, ranking \in ContextRankings : FirstSearch(env, ranking)
  \/ \E env \in Envs, ranking \in ContextRankings : RetrySearch(env, ranking)
  \/ ReturnNoContext
  \/ BuildContext

ContextSpec == FrontInit /\ [][ContextNext]_vars

(***************************************************************************)
(* Properties of get_context_for_query, checked under ContextSpec.         *)
(***************************************************************************)
\* C24: get_context_for_query never returns an empty string: with an empty
\* final result list it returns the fixed, non-empty sentence, and
\* otherwise a non-empty formatted context.
C24_NeverEmpty ==
  cpc = "returned" =>
    /\ Len(context) > 0
    /\ cResults = <<>> =>
         /\ context = NO_CONTEXT
         /\ Contains(context, <<"N", "o", " ", "r", "e", "l", "e", "v", "a", "n", "t", " ", "c", "o", "n", "t", "e", "x", "t">>)
    /\ cResults # <<>> =>
         /\ context # NO_CONTEXT
         /\ Len(context) >= Len(cResults[1].payload.content)

\* the fixed sentence was returned after an enhanced search and a retry
\* that both came back empty
C24_Witness ==
  /\ cpc = "returned"
  /\ cResults = <<>>
  /\ Len(searches) = 2
  /\ context = NO_CONTEXT

\* the block the i-th result is shown as
LabelledBlock(i, r) ==
  <<"[", "S", "o", "u", "r", "c", "e", " ">> \o Str(i) \o <<" ", "-", " ">>
    \o r.payload.filename \o <<",", " ", "P", "a", "g", "e", " ">>
    \o Str(r.payload.page_number) \o <<"]", "\n">> \o r.payload.content \o <<"\n">>

\* where the i-th block starts in a context made of the blocks of rs
RECURSIVE BlockStart(_, _)
BlockStart(rs, i) ==
  IF i = 1 THEN 0
  ELSE BlockStart(rs, i - 1) + Len(LabelledBlock(i - 1, rs[i - 1])) + Len(Delimiter)

\* the number of places of s where sub begins
Occurrences(s, sub) ==
  Cardinality({i \in 0..(Len(s) - Len(sub)) : SubSeq(s, i + 1, i + Len(sub)) = sub})

\* C25: for a non-empty result list the context holds exactly one labelled
\* block per result, in the order the search returned them: the i-th block
\* is labelled Source i and carries the i-th result's filename, page number
\* and content; the blocks are joined by the fixed delimiter and never
\* reordered by document or page.
C25_BlocksInOrder ==
  (cpc = "returned" /\ cResults # <<>>) =>
    LET n == Len(cResults)
    IN  /\ cResults = searches[Len(searches)].results
        /\ Len(context) = BlockStart(cResults, n) + Len(LabelledBlock(n, cResults[n]))
        /\ Occurrences(context, <<"[", "S", "o", "u", "r", "c", "e", " ">>) = n
        /\ \A i \in 1..n :
             LET from  == BlockStart(cResults, i)
                 block == LabelledBlock(i, cResults[i])
             IN  /\ SubSeq(context, from + 1, from + Len(block)) = block
                 /\ i < n =>
                      SubSeq(context, from + Len(block) + 1,
                             from + Len(block) + Len(Delimiter)) = Delimiter

\* two results were returned against document and page order
C25_Witness ==
  /\ cpc = "returned"
  /\ Len(cResults) >= 2
  /\ cResults[1].payload.filename = FileB
  /\ cResults[2].payload.filename = FileA
  /\ cResults[1].payload.page_number > cResults[2].payload.page_number

\* the call is over: it returned or an exception left it
ContextOver == cpc \in {"returned", "raised"}

\* C29: if the enhanced query differs from the original and its search
\* returns no results, exactly one further search is made, with the
\* original query and the caller's limit; if the first search returns
\* results no further search is made; the fixed sentence is returned only
\* if every search made returned no results.
C29_OneRetry ==
  /\ Len(searches) <= 2
  /\ Len(searches) >= 1 =>
       /\ searches[1].query = enhanced_query
       /\ searches[1].results # <<>> => Len(searches) = 1
  /\ ( /\ ContextOver
       /\ Len(searches) >= 1
       /\ enhanced_query # cArgs.query
       /\ searches[1].outcome = "returned"
       /\ searches[1].results = <<>> ) =>
       /\ Len(searches) = 2
       /\ searches[2].query = cArgs.query
       /\ searches[2].limit = cArgs.limit
       /\ searches[2].filename = cArgs.filename
  /\ (cpc = "returned" /\ context = NO_CONTEXT) =>
       \A k \in 1..Len(searches) : searches[k].results = <<>>

\* an empty boosted search was followed by a search of the original query
\* that found something
C29_Witness ==
  /\ cpc = "returned"
  /\ Len(searches) = 2
  /\ searches[1].limit # cArgs.limit
  /\ searches[2].results # <<>>
  /\ context # NO_CONTEXT

\* C30: when enhance_query changes the query, the first search is made with
\* a limit that is at least the caller's limit, for every limit >= 1.
C30_BoostedLimitAtLeastLimit ==
  (Len(searches) >= 1 /\ enhanced_query # cArgs.query /\ cArgs.limit >= 1) =>
    searches[1].limit >= cArgs.limit

(***************************************************************************)
(* The batch entry points: process_pdfs (ui/app.py), process_documents     *)
(* (ui/components/sidebar.py) and get_pdf_text (utils/pdf_extractor.py).   *)
(* A document's fate is "ok", "failed" (the callee returns a failed        *)
(* result: process_and_index_pdf returns False, get_single_pdf_text        *)
(* returns no text) or "raises" (upload_pdf or the future raises).         *)
(***************************************************************************)
MaxDocs == 3

\* for idx, uploaded_file in enumerate(uploaded_files): the next document
NextDocument == Cardinality(attempted) + 1

\* the entry point is called with a non-empty list of files
Submit(e, batch) ==
  /\ bState = "idle"
  /\ entry' = e
  /\ fates' = batch
  /\ bState' = "loop"
  /\ attempted' = {}
  /\ reported' = [d \in DOMAIN batch |-> "none"]
  /\ final' = "none"
  /\ UNCHANGED <<searchVars, ingestVars, embedVars, storeVars, contextVars>>

\* process_pdfs, one turn of the loop: the try block inside the loop shows
\* st.success, st.error("Failed to process") or st.error("Error")
ProcessPdfsFile ==
  /\ entry = "process_pdfs"
  /\ bState = "loop"
  /\ NextDocument \in DOMAIN fates
  /\ attempted' = attempted \cup {NextDocument}
  /\ reported' = [reported EXCEPT ![NextDocument] =
                    IF fates[NextDocument] = "ok" THEN "success" ELSE "failure"]
  /\ UNCHANGED <<entry, fates, bState, final>>
  /\ UNCHANGED <<searchVars, ingestVars, embedVars, storeVars, contextVars>>

\* process_pdfs after the loop: if st.session_state.processed_files
ProcessPdfsEnd ==
  /\ entry = "process_pdfs"
  /\ bState = "loop"
  /\ attempted = DOMAIN fates
  /\ bState' = "done"
  /\ final' = IF \E d \in DOMAIN fates : reported[d] = "success"
              THEN "processed" ELSE "none_processed"
  /\ UNCHANGED <<entry, fates, attempted, reported>>
  /\ UNCHANGED <<searchVars, ingestVars, embedVars, storeVars, contextVars>>

\* process_documents, one turn of the loop: the only try block is around
\* the whole loop, and `if success` has no else branch
ProcessDocumentsFile ==
  /\ entry = "process_documents"
  /\ bState = "loop"
  /\ NextDocument \in DOMAIN fates
  /\ attempted' = attempted \cup {NextDocument}
  /\ IF fates[NextDocument] = "raises"
     THEN /\ reported' = [reported EXCEPT ![NextDocument] = "failure"]
          /\ bState' = "aborted"
          /\ final' = "error"
     ELSE /\ reported' = [reported EXCEPT ![NextDocument] =
                            IF fates[NextDocument] = "ok" THEN "success" ELSE "none"]
          /\ UNCHANGED <<bState, final>>
  /\ UNCHANGED <<entry, fates>>
  /\ UNCHANGED <<searchVars, ingestVars, embedVars, storeVars, contextVars>>

\* st.success(f"Successfully processed {len(uploaded_files)} document(s)!")
ProcessDocumentsEnd ==
  /\ entry = "process_documents"
  /\ bState = "loop"
  /\ attempted = DOMAIN fates
  /\ bState' = "done"
  /\ final' = "all_succeeded"
  /\ UNCHANGED <<entry, fates, attempted, reported>>
  /\ UNCHANGED <<searchVars, ingestVars, embedVars, storeVars, contextVars>>

\* get_pdf_text, for future in as_completed(futures): the documents finish
\* in any order; texts[name] is the text, or "" when there is none or the
\* future raised
GetPdfTextCompleted(d) ==
  /\ entry = "get_pdf_text"
  /\ bState = "loop"
  /\ d \in DOMAIN fates \ attempted
  /\ attempted' = attempted \cup {d}
  /\ reported' = [reported EXCEPT ![d] =
                    IF fates[d] = "ok" THEN "success" ELSE "failure"]
  /\ UNCHANGED <<entry, fates, bState, final>>
  /\ UNCHANGED <<searchVars, ingestVars, embedVars, storeVars, contextVars>>

\* return texts
GetPdfTextEnd ==
  /\ entry = "get_pdf_text"
  /\ bState = "loop"
  /\ attempted = DOMAIN fates
  /\ bState' = "done"
  /\ final' = "returned"
  /\ UNCHANGED <<entry, fates, attempted, reported>>
  /\ UNCHANGED <<searchVars, ingestVars, embedVars, storeVars, contextVars>>

BatchNext ==
  \/ \E e \in {"process_pdfs", "process_documents", "get_pdf_text"},
        batch \in UNION { [1..n -> {"ok", "failed", "raises"}] : n \in 1..MaxDocs } :
       Submit(e, batch)
  \/ ProcessPdfsFile
  \/ ProcessPdfsEnd
  \/ ProcessDocumentsFile
  \/ ProcessDocumentsEnd
  \/ \E d \in 1..MaxDocs : GetPdfTextCompleted(d)
  \/ GetPdfTextEnd

BatchSpec == FrontInit /\ [][BatchNext]_vars

(***************************************************************************)
(* Properties of batch ingestion, checked under BatchSpec.                 *)
(***************************************************************************)
\* the batch is over: the entry point returned
BatchOver == bState \in {"done", "aborted"}

\* C23: when several documents are ingested in one batch, a failure of one
\* document (a failed result or a raised exception) does not keep the
\* remaining documents from being processed, and every submitted document
\* gets its own success or failure outcome, whatever the completion order.
C23_PerDocumentOutcomes ==
  BatchOver =>
    \A d \in DOMAIN fates :
      /\ d \in attempted
      /\ reported[d] = IF fates[d] = "ok" THEN "success" ELSE "failure"

(***************************************************************************)
(* Properties of concurrent workers, checked under RaceSpec.               *)
(***************************************************************************)
\* the ids of the points add_points has stored so far
WrittenIds == 1..nextId

\* C27: with two workers using the same expected dimension, once one
\* worker's _ensure_collection has returned and that worker has upserted
\* points, no later step of the other worker's _ensure_collection deletes
\* the collection: points written after a completed ensure are never lost.
C27_WrittenPointsKept ==
  \A i \in WrittenIds : coll.exists /\ \E p \in coll.points : p.id = i

==============================================================================
